---- MODULE Spec2Model ----
(***************************************************************************)
(* A model of aurorus (src/src/main.rs): the command loop, the search and  *)
(* install flows that number a merged catalog of AUR and official          *)
(* packages, the dependency extraction from a .SRCINFO manifest, and the   *)
(* update check that queries the AUR in chunks of 50 names with at most    *)
(* four requests in flight.                                                *)
(*                                                                         *)
(* Conventions.                                                            *)
(*  - Option<T> is a sequence of length at most one: <<>> is None and      *)
(*    <<v>> is Some(v).                                                    *)
(*  - A usize is represented by its two's-complement reading: a negative   *)
(*    integer x stands for 2^64 + x, so that a wrapped subtraction 0 - 1   *)
(*    is -1 (usize::MAX).  Unsigned comparisons go through ULe.            *)
(*  - A line of `pacman -Ss` output is a record: `indented` is             *)
(*    line.starts_with(char::is_whitespace), `tagged` is                   *)
(*    line.find('[').is_some(), `first` is the first whitespace-separated  *)
(*    token of the line.                                                   *)
(***************************************************************************)
EXTENDS Integers, Sequences, FiniteSets, TLC

\* ------------------------------------------------------------------ bounds

\* Most AUR records one search returns.
MaxRemote == 2

\* Most lines one `pacman -Ss` prints.
MaxLines == 3

\* Most lines of a .SRCINFO manifest.
MaxManifestLines == 3

\* Most installed AUR packages of an update check whose versions and AUR records are
\* drawn freely.
MaxSmallInstalled == 2

\* Most installed AUR packages of an update check; past 200 a fifth chunk exists.
MaxInstalled == 201

\* The same three bounds for the runs of whole handlers under the command loop.
LoopMaxRemote == 1
LoopMaxLines == 1
LoopMaxInstalled == 1

\* ------------------------------------------------------------------ program constants

\* `let chunk_size = 50;`
chunk_size == 50

\* `.buffer_unordered(4)`
buffer_limit == 4

\* ------------------------------------------------------------------ inputs

None == <<>>
Some(v) == <<v>>

\* NumVotes values of the AUR records: absent, 0, and two distinct positive counts.
Popularities == {None, Some(0), Some(1), Some(5)}

\* The name of the AUR record that arrives at position i of the response.
RemoteNames == <<"x", "y", "x3", "x4", "x5">>

\* The first token of the non-indented line at position i of the pacman output.
LocalNames == <<"z", "z2", "z3", "z4", "z5", "z6">>

RECURSIVE SeqsUpTo(_, _)
SeqsUpTo(S, n) ==
    IF n = 0 THEN {<<>>}
    ELSE LET shorter == SeqsUpTo(S, n - 1)
         IN shorter \cup {Append(s, e) : s \in {t \in shorter : Len(t) = n - 1}, e \in S}

\* Vec<AurPackage> values of up to n records: record i carries RemoteNames[i] and any
\* popularity.
RemoteLists(n) ==
    {[i \in 1..Len(p) |-> [name |-> RemoteNames[i], num_votes |-> p[i]]] :
        p \in SeqsUpTo(Popularities, n)}

\* Line shapes: a header with a bracketed tag, a header without one (pacman prints
\* the tag only for some packages), an indented line.
LineKinds == {"tagged", "plain", "indented"}

MkLine(kind, i) ==
    [indented |-> (kind = "indented"),
     tagged   |-> (kind = "tagged"),
     first    |-> IF kind = "indented" THEN "description" ELSE LocalNames[i]]

LineLists(n) ==
    {[i \in 1..Len(k) |-> MkLine(k[i], i)] : k \in SeqsUpTo(LineKinds, n)}

\* What aur::search returns: Err, or Ok with `results` None or Some(list).
AurSearchResults(n) ==
    {[ok |-> FALSE, results |-> None]}
    \cup {[ok |-> TRUE, results |-> None]}
    \cup {[ok |-> TRUE, results |-> Some(r)] : r \in RemoteLists(n)}

\* What pacman::search meets: the subprocess cannot be launched, or it prints lines.
PacmanSearchResults(n) ==
    {[launched |-> FALSE, lines |-> <<>>]}
    \cup {[launched |-> TRUE, lines |-> l] : l \in LineLists(n)}

\* A manifest line is the sequence of its tokens: words, single spaces, tabs and
\* '=' signs.  A string built from a line (a dependency name) is a token sequence too.
ManifestLineSet ==
    { <<"pkgname", " ", "=", " ", "foo">>,
      <<"depends", " ", "=", " ", "bar">>,
      <<"\t", "depends", " ", "=", " ", "baz">>,
      <<"depends", "=", "bar">>,
      <<"depends", " ", "=", " ", "foo>", "=", "1.2">>,
      <<"makedepends", " ", "=", " ", "gcc">>,
      <<"depends", " ", " ", "=", " ", "qux">>,
      <<"depends", " ", "=", " ">>,
      <<>> }

\* The manifests fetch_srcinfo can return, as the list of their lines.
Manifests == SeqsUpTo(ManifestLineSet, MaxManifestLines)

\* ------------------------------------------------------------------ state

VARIABLES
    overflow_checks,    \* build profile: TRUE panics on integer overflow (debug), FALSE wraps (release)
    aur_env,            \* environment: what the AUR answers to the search request
    pacman_env,         \* environment: what running `pacman -Ss` comes to
    pc,                 \* position of the single logical flow
    ret,                \* what the running handler returned: "none", "Ok", "Err"
    aur_response,       \* the AurResponse aur::search gave (Option)
    official_packages,  \* the lines pacman::search gave
    combined_packages,  \* the AUR records after the sort
    total_count,        \* total_count of the flow
    current_index,      \* the running display counter (usize)
    displayed,          \* the numbered entries printed so far, in print order
    selection,          \* the parsed selection of install_package (Option)
    selected_package,   \* the name install_package resolved (Option)
    input,              \* the line read at the prompt of install_package or update_packages
    srcinfo,            \* the manifest text fetch_srcinfo returned (Option)
    deps,               \* what parse_dependencies returned
    installed,          \* the names `pacman -Q` knows (what is_installed answers from)
    missing_deps,       \* what get_missing_dependencies returned
    dep_queue,          \* the missing dependencies the install loop has still to visit
    dep_input,          \* the line read at the confirmation of the missing dependencies
    effects,            \* the fetches and subprocess runs made so far, in order
    packages_env,       \* environment: what `pacman -Qm` comes to
    aur_info,           \* environment: what the AUR knows of each queried name
    packages,           \* the installed AUR packages, (name, version) pairs
    packages_chunks,    \* the names, in chunks
    next_chunk,         \* the next chunk the stream hands to buffer_unordered
    in_flight,          \* the chunks whose request is started and not completed
    results,            \* the collected Result<AurResponse> values, in completion order
    updates_available,  \* the (name, installed version, AUR version) triples
    to_update,          \* the triples the update loop has still to visit
    command,            \* the command word main matched, lowercased ("" before any)
    has_args,           \* whether the command line carried arguments
    reported,           \* the error main printed for the last command (Option)
    printed             \* the messages of update_packages and of main, in order

catalogVars == <<aur_response, official_packages, combined_packages, total_count,
                 current_index, displayed, selection, selected_package, input>>

depVars == <<srcinfo, deps, installed, missing_deps, dep_queue, dep_input>>

updateVars == <<packages, packages_chunks, next_chunk, in_flight, results, updates_available,
                to_update>>

mainVars == <<command, has_args, reported>>

envVars == <<overflow_checks, aur_env, pacman_env, packages_env, aur_info>>

vars == <<envVars, pc, ret, catalogVars, depVars, effects, updateVars, printed, mainVars>>

\* ------------------------------------------------------------------ usize

\* a <= b on usize values in the two's-complement representation.
ULe(a, b) ==
    IF a >= 0 /\ b >= 0 THEN a <= b
    ELSE IF a < 0 /\ b < 0 THEN a <= b
    ELSE b < 0

\* ------------------------------------------------------------------ sorting

\* Option<u32> ordering of `a.num_votes.cmp(&b.num_votes)`: None < Some(_).
OptionLess(a, b) ==
    IF a = None THEN b # None
    ELSE b # None /\ a[1] < b[1]

\* `pkg.num_votes.unwrap_or(0)`
unwrap_or_0(v) == IF v = None THEN 0 ELSE v[1]

\* The comparisons with the operands exchanged: a descending sort.
VotesLessDescending(by, a, b) ==
    IF by = "cmp" THEN OptionLess(b.num_votes, a.num_votes)
    ELSE unwrap_or_0(b.num_votes) < unwrap_or_0(a.num_votes)

\* The comparison each flow sorts with: "cmp" is search_packages'
\* `a.num_votes.cmp(&b.num_votes)`, "key" is install_package's
\* `sort_by_key(|pkg| pkg.num_votes.unwrap_or(0))`.
VotesLess(by, a, b) ==
    IF by = "cmp" THEN OptionLess(a.num_votes, b.num_votes)
    ELSE unwrap_or_0(a.num_votes) < unwrap_or_0(b.num_votes)

\* Stable insertion of e into the sorted sequence s: after every element not greater.
RECURSIVE InsertStable(_, _, _)
InsertStable(s, e, by) ==
    IF s = <<>> THEN <<e>>
    ELSE IF VotesLess(by, e, s[Len(s)])
    THEN Append(InsertStable(SubSeq(s, 1, Len(s) - 1), e, by), s[Len(s)])
    ELSE Append(s, e)

\* slice::sort_by / sort_by_key: a stable sort.
RECURSIVE SortStable(_, _)
SortStable(s, by) ==
    IF s = <<>> THEN <<>>
    ELSE InsertStable(SortStable(SubSeq(s, 1, Len(s) - 1), by), s[Len(s)], by)

\* search_packages: combined_packages.sort_by(|a, b| a.num_votes.cmp(&b.num_votes))
sort_by_votes(pkgs) == SortStable(pkgs, "cmp")

\* install_package: combined_packages.sort_by_key(|pkg| pkg.num_votes.unwrap_or(0))
sort_by_key_votes(pkgs) == SortStable(pkgs, "key")

\* `aur_response.results.unwrap_or_default()`
unwrap_or_default(opt) == IF opt = None THEN <<>> ELSE opt[1]

\* ------------------------------------------------------------------ display

\* The counting loop: non-indented lines that contain '['.
RECURSIVE CountOfficial(_)
CountOfficial(lines) ==
    IF lines = <<>> THEN 0
    ELSE CountOfficial(Tail(lines))
         + (IF ~Head(lines).indented /\ Head(lines).tagged THEN 1 ELSE 0)

\* `current_index -= 1` on a usize: at 0 it panics when overflow checks are on and
\* wraps to usize::MAX when they are off.
Decrement(st, checks) ==
    IF st.index = 0
    THEN IF checks THEN [st EXCEPT !.panicked = TRUE] ELSE [st EXCEPT !.index = -1]
    ELSE [st EXCEPT !.index = @ - 1]

\* The loop over the AUR records: print_package(current_index, pkg); current_index -= 1.
RECURSIVE DisplayAur(_, _, _, _)
DisplayAur(pkgs, k, st, checks) ==
    IF st.panicked \/ k > Len(pkgs) THEN st
    ELSE LET shown == Append(st.out, [index |-> st.index, name |-> pkgs[k].name,
                                       source |-> "aur", pos |-> k])
         IN DisplayAur(pkgs, k + 1, Decrement([st EXCEPT !.out = shown], checks), checks)

\* print_official_pkg prints the index only for a line with a '[' and a token before it.
PrintsIndex(line) == line.tagged /\ line.first # ""

\* The loop over the pacman lines: a non-indented line takes the line after it
\* (lines.next()) as its description candidate, indented or not, is handed to
\* print_official_pkg, and the counter is decremented.
RECURSIVE DisplayOfficial(_, _, _, _)
DisplayOfficial(lines, i, st, checks) ==
    IF st.panicked \/ i > Len(lines) THEN st
    ELSE IF ~lines[i].indented
    THEN LET shown == IF PrintsIndex(lines[i])
                      THEN Append(st.out, [index |-> st.index, name |-> lines[i].first,
                                           source |-> "official", pos |-> i])
                      ELSE st.out
         IN DisplayOfficial(lines, i + 2, Decrement([st EXCEPT !.out = shown], checks), checks)
    ELSE DisplayOfficial(lines, i + 1, st, checks)

\* Both display loops, from current_index = total_count.
Display(pkgs, lines, total, checks) ==
    DisplayOfficial(lines, 1,
        DisplayAur(pkgs, 1, [index |-> total, out |-> <<>>, panicked |-> FALSE], checks),
        checks)

\* ------------------------------------------------------------------ parse_dependencies

IsWhitespace(t) == t \in {" ", "\t"}

RECURSIVE TrimStart(_)
TrimStart(s) == IF s # <<>> /\ IsWhitespace(Head(s)) THEN TrimStart(Tail(s)) ELSE s

RECURSIVE TrimEnd(_)
TrimEnd(s) ==
    IF s # <<>> /\ IsWhitespace(s[Len(s)]) THEN TrimEnd(SubSeq(s, 1, Len(s) - 1)) ELSE s

\* A trim of the end of the string alone.
TrimOnlyEnd(s) == TrimEnd(s)

\* str::trim
Trim(s) == TrimEnd(TrimStart(s))

\* str::starts_with
StartsWith(s, prefix) == Len(s) >= Len(prefix) /\ SubSeq(s, 1, Len(prefix)) = prefix

\* The pattern of `trimmed.starts_with("depends =")`: the key, one space, '='.
DependsPrefix == <<"depends", " ", "=">>

\* The positions of the '=' signs of s.
EqualsAt(s) == {i \in 1..Len(s) : s[i] = "="}

Min(S) == CHOOSE m \in S : \A n \in S : m <= n

\* `s.split('=').nth(1)`: the text between the first and the second '=' (or the end).
SplitNth1(s) ==
    IF EqualsAt(s) = {} THEN None
    ELSE LET first == Min(EqualsAt(s))
             later == {i \in EqualsAt(s) : i > first}
             stop  == IF later = {} THEN Len(s) + 1 ELSE Min(later)
         IN Some(SubSeq(s, first + 1, stop - 1))

\* aur::parse_dependencies over the lines of the manifest, in order.
RECURSIVE parse_dependencies(_)
parse_dependencies(lines) ==
    IF lines = <<>> THEN <<>>
    ELSE LET trimmed == Trim(Head(lines))
             dep     == SplitNth1(trimmed)
             found   == IF StartsWith(trimmed, DependsPrefix) /\ dep # None
                        THEN <<Trim(dep[1])>>
                        ELSE <<>>
         IN found \o parse_dependencies(Tail(lines))

\* The loop with a name pushed once only, at its last place.
RECURSIVE MissingOfOnce(_, _)
MissingOfOnce(ds, inst) ==
    IF ds = <<>> THEN <<>>
    ELSE (IF \/ Head(ds) \in inst
             \/ \E i \in 2..Len(ds) : ds[i] = Head(ds)
          THEN <<>> ELSE <<Head(ds)>>) \o MissingOfOnce(Tail(ds), inst)

\* The loop of get_missing_dependencies: the dependencies is_installed denies, in order.
RECURSIVE MissingOf(_, _)
MissingOf(ds, inst) ==
    IF ds = <<>> THEN <<>>
    ELSE (IF Head(ds) \in inst THEN <<>> ELSE <<Head(ds)>>) \o MissingOf(Tail(ds), inst)

\* The dependency names a manifest of the model can give.
DepNames == {<<"bar">>, <<"baz">>, <<"foo>">>, <<>>}

\* A fetch or a subprocess run: `pkg` is a catalog name, `dep` a dependency name,
\* `id` the name of an installed AUR package (0 where there is none).
Effect(op, pkg, dep) == [op |-> op, pkg |-> pkg, dep |-> dep, id |-> 0]

UpdateEffect(op, id) == [op |-> op, pkg |-> "", dep |-> <<>>, id |-> id]

\* actions::get_missing_dependencies for `package`, with the manifest drawn from
\* `manifests`; `next` is where the caller goes on after Ok.
GetMissingDependenciesBody(package, manifests, names, next) ==
    \E fetched \in {None} \cup {Some(m) : m \in manifests}, inst \in SUBSET names :
        /\ effects' = Append(effects, Effect("fetch_srcinfo", package, <<>>))
        /\ IF fetched = None
           THEN \* `aur::fetch_srcinfo(client, package).await?`
                /\ pc' = "returned"
                /\ ret' = "Err"
                /\ UNCHANGED depVars
           ELSE /\ srcinfo' = fetched
                /\ deps' = parse_dependencies(fetched[1])
                /\ installed' = inst
                /\ missing_deps' = MissingOf(deps', inst)
                /\ UNCHANGED <<dep_queue, dep_input>>
                /\ pc' = next
                /\ ret' = IF next = "returned" THEN "Ok" ELSE ret

\* get_missing_dependencies called on its own.
GetMissingDependencies ==
    /\ pc = "get_missing_dependencies"
    /\ GetMissingDependenciesBody("foo", Manifests, DepNames, "returned")
    /\ UNCHANGED <<envVars, catalogVars, updateVars, printed, mainVars>>

\* ------------------------------------------------------------------ search_packages

\* A search whose failure is not handed to the caller.
SearchNeverFails(aur) == FALSE

\* `aur::search(client, query).await?` takes the Err branch: the request failed, the
\* status is no success, or the body does not parse.
SearchFailed(aur) == ~aur.ok

CatalogUnchanged ==
    UNCHANGED <<envVars, selection, selected_package, input, depVars, effects, updateVars,
                printed, mainVars>>

\* actions::search_packages, the whole handler.
SearchPackages ==
    /\ pc = "search_packages"
    /\ LET aur == aur_env
           pac == pacman_env
       IN
        IF SearchFailed(aur)
        THEN \* `aur::search(client, query).await?`
             /\ pc' = "returned"
             /\ ret' = "Err"
             /\ aur_response' = None
             /\ UNCHANGED <<official_packages, combined_packages, total_count,
                            current_index, displayed>>
        ELSE IF ~pac.launched
        THEN \* `.expect("Failed to execute pacman search")`
             /\ pc' = "panicked"
             /\ ret' = "none"
             /\ aur_response' = Some(aur)
             /\ combined_packages' = sort_by_votes(unwrap_or_default(aur.results))
             /\ UNCHANGED <<official_packages, total_count, current_index, displayed>>
        ELSE LET sorted == sort_by_votes(unwrap_or_default(aur.results))
                 total  == CountOfficial(pac.lines) + Len(sorted)
                 st     == Display(sorted, pac.lines, total, overflow_checks)
             IN /\ aur_response' = Some(aur)
                /\ official_packages' = pac.lines
                /\ combined_packages' = sorted
                /\ total_count' = total
                /\ current_index' = st.index
                /\ displayed' = st.out
                /\ pc' = IF st.panicked THEN "panicked" ELSE "returned"
                /\ ret' = IF st.panicked THEN "none" ELSE "Ok"
    /\ CatalogUnchanged

\* ------------------------------------------------------------------ install_package

\* What the user can type at a prompt, after read_line: a failed read, a word, a number.
PromptWords == {"back", "Back", "quit", "QUIT", "abc", "y", "Y", "n", "all", ""}

\* A line read at a prompt: nothing read yet, a word that is no number, or a number.
NoInput == [kind |-> "none", word |-> "", num |-> 0]

WordInput(w) == [kind |-> "word", word |-> w, num |-> 0]

NumberInput(n) == [kind |-> "number", word |-> "", num |-> n]

\* A line of several numbers, as the update prompt takes them.
NumbersInput == [kind |-> "numbers", word |-> "", num |-> 0]

\* str::to_ascii_lowercase on the words of the model.
AsciiLower(w) ==
    CASE w = "Back" -> "back"
      [] w = "QUIT" -> "quit"
      [] w = "Y"    -> "y"
      [] OTHER      -> w

\* A comparison that tells the letter cases apart.
EqualsExactly(a, b) == a = b

\* a.eq_ignore_ascii_case(b)
eq_ignore_ascii_case(a, b) == AsciiLower(a) = AsciiLower(b)

\* The selection resolution: total_count - selection + 1 names an AUR record, or,
\* past them, the n-th non-indented line with a '['.
RECURSIVE NthTaggedName(_, _, _)
NthTaggedName(lines, n, count) ==
    IF lines = <<>> THEN ""
    ELSE IF ~Head(lines).indented /\ Head(lines).tagged
    THEN IF count + 1 = n THEN Head(lines).first
         ELSE NthTaggedName(Tail(lines), n, count + 1)
    ELSE NthTaggedName(Tail(lines), n, count)

ResolveSelection(sel, total, pkgs, lines) ==
    LET reversed_selection == total - sel + 1
    IN IF reversed_selection <= Len(pkgs)
       THEN pkgs[reversed_selection].name
       ELSE NthTaggedName(lines, reversed_selection - Len(pkgs), 0)

\* The manifests the install flow meets: up to two lines, dependencies bar and baz.
InstallManifests ==
    {m \in Manifests : /\ Len(m) <= 2
                       /\ \A i \in 1..Len(m) :
                            m[i] \in { <<"pkgname", " ", "=", " ", "foo">>,
                                       <<"depends", " ", "=", " ", "bar">>,
                                       <<"\t", "depends", " ", "=", " ", "baz">> }}

\* install_package, step 1 and 2: both searches, the sort, the count and the display.
InstallSearch ==
    /\ pc = "install_package"
    /\ LET aur == aur_env
           pac == pacman_env
       IN
        IF SearchFailed(aur)
        THEN /\ pc' = "returned"
             /\ ret' = "Err"
             /\ aur_response' = None
             /\ UNCHANGED <<official_packages, combined_packages, total_count,
                            current_index, displayed>>
        ELSE IF ~pac.launched
        THEN /\ pc' = "panicked"
             /\ ret' = "none"
             /\ aur_response' = Some(aur)
             /\ UNCHANGED <<official_packages, combined_packages, total_count,
                            current_index, displayed>>
        ELSE LET sorted == sort_by_key_votes(unwrap_or_default(aur.results))
                 total  == CountOfficial(pac.lines) + Len(sorted)
                 st     == Display(sorted, pac.lines, total, overflow_checks)
             IN /\ aur_response' = Some(aur)
                /\ official_packages' = pac.lines
                /\ combined_packages' = sorted
                /\ total_count' = total
                /\ current_index' = st.index
                /\ displayed' = st.out
                /\ pc' = IF st.panicked THEN "panicked" ELSE "install_prompt"
                /\ ret' = "none"
    /\ CatalogUnchanged

\* A range check that lets 0 through.
ContainsFromZero(num, total) == 0 <= num /\ num <= total

\* `(1..=total_count).contains(&num)`
RangeContains(num, total) == 1 <= num /\ num <= total

\* install_package, step 3: the prompt, the parse of the selection and its resolution.
InstallSelect ==
    /\ pc = "install_prompt"
    /\ \/ \* `io::stdin().read_line(&mut input)?`
          /\ pc' = "returned"
          /\ ret' = "Err"
          /\ UNCHANGED <<selection, selected_package, input>>
       \/ \E w \in PromptWords :
          /\ input' = WordInput(w)
          /\ pc' = "returned"
          /\ ret' = IF eq_ignore_ascii_case(w, "back") \/ eq_ignore_ascii_case(w, "quit")
                    THEN "Ok" ELSE "Err"
          /\ UNCHANGED <<selection, selected_package>>
       \/ \E num \in 0..(total_count + 1) :
          /\ input' = NumberInput(num)
          /\ IF RangeContains(num, total_count)
             THEN /\ selection' = Some(num)
                  /\ selected_package' =
                        Some(ResolveSelection(num, total_count, combined_packages,
                                              official_packages))
                  /\ pc' = "install_dependencies"
                  /\ ret' = "none"
             ELSE /\ pc' = "returned"
                  /\ ret' = "Err"
                  /\ UNCHANGED <<selection, selected_package>>
    /\ UNCHANGED <<envVars, aur_response, official_packages, combined_packages,
                   total_count, current_index, displayed, depVars, effects, updateVars,
                   printed, mainVars>>

\* install_package: `get_missing_dependencies(client, selected_package).await?`
InstallGetMissing ==
    /\ pc = "install_dependencies"
    /\ GetMissingDependenciesBody(selected_package[1], InstallManifests,
                                  {<<"bar">>, <<"baz">>}, "install_confirm")
    /\ UNCHANGED <<envVars, catalogVars, updateVars, printed, mainVars>>

\* The lines the user can give at the "(y/N)" confirmation, trimmed.
ConfirmWords == {"y", "Y", "n", ""}

\* A confirmation whose default is yes: "(Y/n)" in place of "(y/N)".
ConfirmedByDefault(w) == w \in {"", "y", "Y"}

\* `dep_input.trim().eq_ignore_ascii_case("y")`
Confirmed(w) == eq_ignore_ascii_case(w, "y")

\* install_package: the confirmation of the missing dependencies.
InstallConfirm ==
    /\ pc = "install_confirm"
    /\ IF missing_deps = <<>>
       THEN /\ pc' = "install_selected"
            /\ UNCHANGED <<ret, dep_queue, dep_input>>
       ELSE \/ \* `io::stdin().read_line(&mut dep_input)?`
               /\ pc' = "returned"
               /\ ret' = "Err"
               /\ UNCHANGED <<dep_queue, dep_input>>
            \/ \E w \in ConfirmWords :
               /\ dep_input' = WordInput(w)
               /\ IF Confirmed(w)
                  THEN /\ dep_queue' = missing_deps
                       /\ pc' = "install_dep_loop"
                       /\ UNCHANGED ret
                  ELSE /\ pc' = "install_selected"
                       /\ UNCHANGED <<ret, dep_queue>>
    /\ UNCHANGED <<envVars, catalogVars, srcinfo, deps, installed, missing_deps,
                   effects, updateVars, printed, mainVars>>

\* What clone_package_repo and the makepkg run can come to: the clone returns Err
\* (an I/O error, or git exits non-zero), makepkg cannot be spawned or waited for
\* (Err), or it runs and exits with success or failure (both Ok).
BuildOutcomes == {"clone_err", "spawn_err", "build_failed", "build_ok"}

BuildEffects(pkg, dep, outcome) ==
    <<Effect("clone_package_repo", pkg, dep)>>
    \o (IF outcome = "clone_err" THEN <<>> ELSE <<Effect("makepkg", pkg, dep)>>)

BuildReturnsErr(outcome) == outcome \in {"clone_err", "spawn_err"}

\* One turn of `for dep in missing_deps { install_aur_dependency(client, &dep).await?; }`
InstallDependency ==
    /\ pc = "install_dep_loop"
    /\ IF dep_queue = <<>>
       THEN /\ pc' = "install_selected"
            /\ UNCHANGED <<ret, dep_queue, effects>>
       ELSE \E outcome \in BuildOutcomes :
            /\ effects' = effects \o BuildEffects("", Head(dep_queue), outcome)
            /\ dep_queue' = Tail(dep_queue)
            /\ IF BuildReturnsErr(outcome)
               THEN pc' = "returned" /\ ret' = "Err"
               ELSE pc' = "install_dep_loop" /\ UNCHANGED ret
    /\ UNCHANGED <<envVars, catalogVars, srcinfo, deps, installed, missing_deps, dep_input,
                   updateVars, printed, mainVars>>

\* install_package: the install of the selected package, by makepkg when
\* `selection <= combined_packages.len()` and by `sudo pacman -S` otherwise.
InstallSelected ==
    /\ pc = "install_selected"
    /\ IF selection[1] <= Len(combined_packages)
       THEN \E outcome \in BuildOutcomes :
            /\ effects' = effects \o BuildEffects(selected_package[1], <<>>, outcome)
            /\ ret' = IF BuildReturnsErr(outcome) THEN "Err" ELSE "Ok"
       ELSE \E launched \in BOOLEAN :
            /\ effects' = Append(effects, Effect("pacman -S", selected_package[1], <<>>))
            /\ ret' = IF launched THEN "Ok" ELSE "Err"
    /\ pc' = "returned"
    /\ UNCHANGED <<envVars, catalogVars, depVars, updateVars, printed, mainVars>>

\* ------------------------------------------------------------------ versions

\* The version strings of the model.  Unparseable stands for any string
\* version_compare::Version::from rejects.
Unparseable == "not-a-version"

Versions == {"1.2", "1.2.0", "1.2.3", "1.2.10", Unparseable}

\* Version::from: the numeric parts of the string, or None.
VersionFrom(v) ==
    CASE v = "1.2"    -> Some(<<1, 2>>)
      [] v = "1.2.0"  -> Some(<<1, 2, 0>>)
      [] v = "1.2.3"  -> Some(<<1, 2, 3>>)
      [] v = "1.2.10" -> Some(<<1, 2, 10>>)
      [] OTHER        -> None

PartAt(parts, i) == IF i <= Len(parts) THEN parts[i] ELSE 0

Max2(a, b) == IF a >= b THEN a ELSE b

\* `ver_local < ver_aur` on parsed versions: part by part, a missing part counting as 0.
VersionLess(a, b) ==
    \E i \in 1..Max2(Len(a), Len(b)) :
        /\ PartAt(a, i) < PartAt(b, i)
        /\ \A j \in 1..(i - 1) : PartAt(a, j) = PartAt(b, j)

\* ------------------------------------------------------------------ update_packages

Pkg(name, version) == [name |-> name, version |-> version]

\* The name of a record the AUR returns that no installed package carries.
ForeignName == MaxInstalled + 1

VersionCycle == <<"1.2", "1.2.3", "1.2.10", "1.2.0", Unparseable>>

\* Installed lists of up to n packages named 1..n, every version drawn freely.
SmallInstalled(n) ==
    {[i \in 1..Len(v) |-> Pkg(i, v[i])] : v \in SeqsUpTo(Versions, n)}

\* What the AUR can hold for the queried name i: nothing, a record of that name with
\* any version, or a record under another name.
InfoEntries(i) ==
    {None} \cup {Some(Pkg(i, v)) : v \in Versions} \cup {Some(Pkg(ForeignName, "1.2.10"))}

\* Every AUR state over the names 1..n.
SmallInfo(n) ==
    IF n = 0 THEN {<<>>}
    ELSE {f \in [1..n -> UNION {InfoEntries(i) : i \in 1..n}] :
            \A i \in 1..n : f[i] \in InfoEntries(i)}

\* The sizes of the long installed lists: one full chunk, one name more, two full
\* chunks and a rest of 20, and every size past four full chunks.
BigSizes ==
    {n \in (MaxSmallInstalled + 1)..MaxInstalled :
        \/ n \in {chunk_size, chunk_size + 1, 2 * chunk_size + 20}
        \/ n > buffer_limit * chunk_size}

\* A long installed list: the versions cycle through the version strings.
BigInstalled(n) == [i \in 1..n |-> Pkg(i, VersionCycle[(i % Len(VersionCycle)) + 1])]

\* The AUR states for a long list: no record at all, or every name at the newest
\* version.
BigInfo(n) ==
    {[i \in 1..n |-> None], [i \in 1..n |-> Some(Pkg(i, "1.2.10"))]}

\* The chunking of `chunks_exact`: a last chunk shorter than `size` is left out.
RECURSIVE ChunksExact(_, _)
ChunksExact(pkgs, size) ==
    IF Len(pkgs) < size THEN <<>>
    ELSE <<[i \in 1..size |-> pkgs[i].name]>>
         \o ChunksExact(SubSeq(pkgs, size + 1, Len(pkgs)), size)

\* `packages.chunks(chunk_size)` mapped to the names.
RECURSIVE Chunks(_, _)
Chunks(pkgs, size) ==
    IF pkgs = <<>> THEN <<>>
    ELSE LET n == IF Len(pkgs) < size THEN Len(pkgs) ELSE size
         IN <<[i \in 1..n |-> pkgs[i].name]>> \o Chunks(SubSeq(pkgs, n + 1, Len(pkgs)), size)

\* The records the AUR returns for the names of one chunk, in the order of the names.
RECURSIVE InfoRecords(_, _)
InfoRecords(names, db) ==
    IF names = <<>> THEN <<>>
    ELSE db[Head(names)] \o InfoRecords(Tail(names), db)

\* The AurResponse of a request that succeeded: `results` is None when the answer
\* carries no such field.
InfoResponse(names, info) ==
    IF info.has_results THEN Some(InfoRecords(names, info.db)) ELSE None

\* `packages.iter().find(|(name, _)| name == &aur_pkg.name)`: the first installed
\* package of that name.
FindInstalled(pkgs, name) ==
    LET at == {i \in 1..Len(pkgs) : pkgs[i].name = name}
    IN IF at = {} THEN None ELSE Some(pkgs[Min(at)])

\* The body with `ver_local != ver_aur` for `ver_local < ver_aur`.
CandidateOfAnyDifference(pkgs, aur_pkg) ==
    LET found == FindInstalled(pkgs, aur_pkg.name)
    IN IF found = None THEN <<>>
       ELSE LET ver_local == VersionFrom(found[1].version)
                ver_aur   == VersionFrom(aur_pkg.version)
            IN IF /\ ver_local # None
                  /\ ver_aur # None
                  /\ (VersionLess(ver_local[1], ver_aur[1]) \/ VersionLess(ver_aur[1], ver_local[1]))
               THEN <<[name |-> aur_pkg.name, current |-> found[1].version,
                       new |-> aur_pkg.version]>>
               ELSE <<>>

\* The body of `for aur_pkg in aur_packages`: the triple pushed for one record, if any.
CandidateOf(pkgs, aur_pkg) ==
    LET found == FindInstalled(pkgs, aur_pkg.name)
    IN IF found = None THEN <<>>
       ELSE LET ver_local == VersionFrom(found[1].version)
                ver_aur   == VersionFrom(aur_pkg.version)
            IN IF ver_local # None /\ ver_aur # None /\ VersionLess(ver_local[1], ver_aur[1])
               THEN <<[name |-> aur_pkg.name, current |-> found[1].version,
                       new |-> aur_pkg.version]>>
               ELSE <<>>

RECURSIVE CandidatesOfRecords(_, _)
CandidatesOfRecords(pkgs, records) ==
    IF records = <<>> THEN <<>>
    ELSE CandidateOf(pkgs, Head(records)) \o CandidatesOfRecords(pkgs, Tail(records))

\* `if let Ok(response) = result { if let Some(aur_packages) = response.results {..} }`
CandidatesOfResult(pkgs, result) ==
    IF result.ok /\ result.results # None
    THEN CandidatesOfRecords(pkgs, result.results[1])
    ELSE <<>>

\* The loop taking the results in the order of their chunks, not of their completion.
RECURSIVE CandidatesInChunkOrder(_, _, _)
CandidatesInChunkOrder(pkgs, rs, c) ==
    IF c > Len(rs) THEN <<>>
    ELSE CandidatesOfResult(pkgs, rs[CHOOSE k \in 1..Len(rs) : rs[k].chunk = c])
         \o CandidatesInChunkOrder(pkgs, rs, c + 1)

CollectInChunkOrder(pkgs, rs) == CandidatesInChunkOrder(pkgs, rs, 1)

\* The loop with the first Err ending it, as `let response = result?;` would.
RECURSIVE CollectUntilErr(_, _)
CollectUntilErr(pkgs, rs) ==
    IF rs = <<>> \/ ~Head(rs).ok THEN <<>>
    ELSE CandidatesOfResult(pkgs, Head(rs)) \o CollectUntilErr(pkgs, Tail(rs))

\* `for result in results`: the results in completion order.
RECURSIVE CollectUpdates(_, _)
CollectUpdates(pkgs, rs) ==
    IF rs = <<>> THEN <<>>
    ELSE CandidatesOfResult(pkgs, Head(rs)) \o CollectUpdates(pkgs, Tail(rs))

Message(text, n) == [text |-> text, n |-> n]

UpdateRestUnchanged == UNCHANGED <<envVars, catalogVars, depVars, mainVars>>

\* update_packages up to the stream: the installed list and its chunks.
UpdateStart ==
    /\ pc = "update_packages"
    /\ IF ~packages_env.ok
       THEN \* `pacman::get_installed_aur_packages()?`
            /\ pc' = "returned"
            /\ ret' = "Err"
            /\ UNCHANGED <<packages, packages_chunks, printed>>
       ELSE /\ packages' = packages_env.list
            /\ UNCHANGED ret
            /\ IF packages_env.list = <<>>
               THEN /\ printed' = Append(printed, Message("No AUR packages installed.", 0))
                    /\ pc' = "update_official"
                    /\ UNCHANGED packages_chunks
               ELSE /\ printed' = Append(printed, Message("Checking {} AUR package(s)...",
                                                          Len(packages_env.list)))
                    /\ packages_chunks' = Chunks(packages_env.list, chunk_size)
                    /\ pc' = "update_dispatch"
    /\ UNCHANGED <<next_chunk, in_flight, results, updates_available, to_update, effects>>
    /\ UpdateRestUnchanged

\* A buffer that takes one future more than its limit.
HasFreeSlotOffByOne(n) == n <= buffer_limit

\* `while this.in_progress_queue.len() < *this.max` of buffer_unordered.
HasFreeSlot(n) == n < buffer_limit

\* buffer_unordered takes the next future off the stream while fewer than
\* buffer_limit are in progress; the request of the chunk starts.
StartChunk ==
    /\ pc = "update_dispatch"
    /\ next_chunk <= Len(packages_chunks)
    /\ HasFreeSlot(Cardinality(in_flight))
    /\ in_flight' = in_flight \cup {next_chunk}
    /\ next_chunk' = next_chunk + 1
    /\ UNCHANGED <<pc, ret, packages, packages_chunks, results, updates_available, printed,
                   to_update, effects>>
    /\ UpdateRestUnchanged

\* The request of chunk c completes: `send().await?` or `.json().await` fails, or the
\* response parses.  The result joins the collected vector.
CompleteChunk(c) ==
    /\ pc = "update_dispatch"
    /\ c \in in_flight
    /\ \E ok \in BOOLEAN :
        results' = Append(results,
            [chunk   |-> c,
             ok      |-> ok,
             results |-> IF ok THEN InfoResponse(packages_chunks[c], aur_info) ELSE None])
    /\ in_flight' = in_flight \ {c}
    /\ UNCHANGED <<pc, ret, packages, packages_chunks, next_chunk, updates_available, printed,
                   to_update, effects>>
    /\ UpdateRestUnchanged

CompleteSomeChunk == \E c \in in_flight : CompleteChunk(c)

\* The stream is exhausted and nothing is in progress: `.collect().await` returns,
\* the loop over the results builds updates_available, and its size is reported.
Collect ==
    /\ pc = "update_dispatch"
    /\ next_chunk > Len(packages_chunks)
    /\ in_flight = {}
    /\ LET found == CollectUpdates(packages, results)
       IN /\ updates_available' = found
          /\ IF found = <<>>
             THEN /\ printed' = Append(printed,
                                       Message("No available update for AUR packages.", 0))
                  /\ pc' = "update_official"
             ELSE /\ printed' = Append(printed,
                                       Message("Updates available for {} package(s):",
                                               Len(found)))
                  /\ pc' = "update_prompt"
    /\ UNCHANGED <<ret, packages, packages_chunks, next_chunk, in_flight, results, to_update,
                   effects>>
    /\ UpdateRestUnchanged

\* The numbers the user can type at the update prompt, for `len` candidates.
SelectionNumbers(len) == {0, 1, 2, len, len + 1}

\* `.filter(|&n| n > 0 && n <= updates_available.len())` and the lookup of each.
RECURSIVE SelectedUpdates(_, _)
SelectedUpdates(sel, avail) ==
    IF sel = <<>> THEN <<>>
    ELSE (IF Head(sel) > 0 /\ Head(sel) <= Len(avail) THEN <<avail[Head(sel)]>> ELSE <<>>)
         \o SelectedUpdates(Tail(sel), avail)

\* update_packages: the prompt over the candidates.
UpdatePrompt ==
    /\ pc = "update_prompt"
    /\ \/ \* `io::stdin().read_line(&mut input)?`
          /\ pc' = "returned"
          /\ ret' = "Err"
          /\ UNCHANGED <<to_update, input>>
       \/ \E w \in PromptWords :
          /\ input' = WordInput(w)
          /\ IF eq_ignore_ascii_case(w, "back") \/ eq_ignore_ascii_case(w, "quit")
             THEN /\ pc' = "returned"
                  /\ ret' = "Ok"
                  /\ UNCHANGED to_update
             ELSE /\ to_update' = IF w = "" \/ AsciiLower(w) = "all"
                                  THEN updates_available
                                  ELSE <<>>
                  /\ pc' = "update_loop"
                  /\ UNCHANGED ret
       \/ \E sel \in SeqsUpTo(SelectionNumbers(Len(updates_available)), 2) :
          /\ sel # <<>>
          /\ input' = NumbersInput
          /\ to_update' = SelectedUpdates(sel, updates_available)
          /\ pc' = "update_loop"
          /\ UNCHANGED ret
    /\ UNCHANGED <<packages, packages_chunks, next_chunk, in_flight, results,
                   updates_available, printed, effects>>
    /\ UNCHANGED <<envVars, aur_response, official_packages, combined_packages, total_count,
                   current_index, displayed, selection, selected_package, depVars, mainVars>>

\* One turn of `for (package, _, _) in to_update`: the clone and the makepkg run.
UpdateOne ==
    /\ pc = "update_loop"
    /\ IF to_update = <<>>
       THEN /\ pc' = "update_official"
            /\ UNCHANGED <<ret, to_update, effects>>
       ELSE \E outcome \in BuildOutcomes :
            /\ effects' = effects
                 \o <<UpdateEffect("clone_package_repo", Head(to_update).name)>>
                 \o (IF outcome = "clone_err" THEN <<>>
                     ELSE <<UpdateEffect("makepkg", Head(to_update).name)>>)
            /\ to_update' = Tail(to_update)
            /\ IF BuildReturnsErr(outcome)
               THEN pc' = "returned" /\ ret' = "Err"
               ELSE pc' = "update_loop" /\ UNCHANGED ret
    /\ UNCHANGED <<packages, packages_chunks, next_chunk, in_flight, results,
                   updates_available, printed>>
    /\ UpdateRestUnchanged

\* update_packages: `sudo pacman -Syu`.
UpdateOfficial ==
    /\ pc = "update_official"
    /\ printed' = Append(printed, Message("Updating official packages via pacman...", 0))
    /\ effects' = Append(effects, UpdateEffect("pacman -Syu", 0))
    /\ \E launched \in BOOLEAN : ret' = IF launched THEN "Ok" ELSE "Err"
    /\ pc' = "returned"
    /\ UNCHANGED <<packages, packages_chunks, next_chunk, in_flight, results,
                   updates_available, to_update>>
    /\ UpdateRestUnchanged

\* ------------------------------------------------------------------ main

\* The first word of a command line, as typed.
CommandWords ==
    {"exit", "EXIT", "help", "search", "s", "install", "i", "uninstall", "ui",
     "update", "up", "frobnicate"}

\* `parts.next().unwrap().to_lowercase()` on the words of the model.
to_lowercase(w) == IF w = "EXIT" THEN "exit" ELSE w

\* The values every variable of a handler has before the handler runs.
FlowReset ==
    /\ ret' = "none"
    /\ aur_response' = None
    /\ official_packages' = <<>>
    /\ combined_packages' = <<>>
    /\ total_count' = 0
    /\ current_index' = 0
    /\ displayed' = <<>>
    /\ selection' = None
    /\ selected_package' = None
    /\ input' = NoInput
    /\ srcinfo' = None
    /\ deps' = <<>>
    /\ installed' = {}
    /\ missing_deps' = <<>>
    /\ dep_queue' = <<>>
    /\ dep_input' = NoInput
    /\ effects' = <<>>
    /\ packages' = <<>>
    /\ packages_chunks' = <<>>
    /\ next_chunk' = 1
    /\ in_flight' = {}
    /\ results' = <<>>
    /\ updates_available' = <<>>
    /\ to_update' = <<>>
    /\ printed' = <<>>

FlowUnchanged == UNCHANGED <<ret, catalogVars, depVars, effects, updateVars, printed>>

\* One turn of the loop up to the match: read_user_input and the split of the line.
ReadUserInput ==
    /\ pc = "prompt"
    /\ \/ \* Err(e) => { eprintln!(..); continue; }
          /\ reported' = Some("Error reading input")
          /\ UNCHANGED <<pc, command, has_args>>
       \/ \* `if input.is_empty() { continue; }`
          /\ reported' = None
          /\ UNCHANGED <<pc, command, has_args>>
       \/ \E w \in CommandWords, a \in BOOLEAN :
          /\ command' = to_lowercase(w)
          /\ has_args' = a
          /\ reported' = None
          /\ pc' = "dispatch"
    /\ FlowUnchanged
    /\ UNCHANGED envVars

\* "exit" => break
DoExit ==
    /\ pc = "dispatch"
    /\ command = "exit"
    /\ pc' = "terminated"
    /\ FlowUnchanged
    /\ UNCHANGED <<envVars, mainVars>>

\* "help", an unknown command, and a command that lacks its arguments: a message.
DoMessage ==
    /\ pc = "dispatch"
    /\ \/ command = "help"
       \/ command \notin {"exit", "help", "search", "s", "install", "i", "uninstall", "ui",
                          "update", "up"}
       \/ command \in {"search", "s", "install", "i", "uninstall", "ui"} /\ ~has_args
    /\ pc' = "prompt"
    /\ FlowUnchanged
    /\ UNCHANGED <<envVars, mainVars>>

\* "search" | "s" => actions::search_packages(..).await
DoSearch ==
    /\ pc = "dispatch"
    /\ command \in {"search", "s"}
    /\ has_args
    /\ pc' = "search_packages"
    /\ FlowUnchanged
    /\ UNCHANGED <<envVars, mainVars>>

\* "install" | "i" => actions::install_package(..).await
DoInstall ==
    /\ pc = "dispatch"
    /\ command \in {"install", "i"}
    /\ has_args
    /\ pc' = "install_package"
    /\ FlowUnchanged
    /\ UNCHANGED <<envVars, mainVars>>

\* "update" | "up" => actions::update_packages(..).await
DoUpdate ==
    /\ pc = "dispatch"
    /\ command \in {"update", "up"}
    /\ pc' = "update_packages"
    /\ FlowUnchanged
    /\ UNCHANGED <<envVars, mainVars>>

\* "uninstall" | "ui": the two is_installed checks and actions::uninstall_package.
DoUninstall ==
    /\ pc = "dispatch"
    /\ command \in {"uninstall", "ui"}
    /\ has_args
    /\ \E pkg_installed \in BOOLEAN, debug_installed \in BOOLEAN :
        IF ~pkg_installed /\ ~debug_installed
        THEN \* `if packages.is_empty() { ..; return Ok(()); }`
             /\ ret' = "Ok"
             /\ UNCHANGED effects
        ELSE /\ effects' = Append(effects, Effect("pacman -Rns", "", <<>>))
             /\ \E status \in {"launch_failed", "success", "failure"} :
                 ret' = IF status = "success" THEN "Ok" ELSE "Err"
    /\ pc' = "returned"
    /\ UNCHANGED <<envVars, mainVars, catalogVars, depVars, updateVars, printed>>

\* The message main prints for an Err of the command.
ErrorMessage(cmd) ==
    CASE cmd \in {"search", "s"}     -> "Error searching for package"
      [] cmd \in {"install", "i"}    -> "Error installing package"
      [] cmd \in {"uninstall", "ui"} -> "Error uninstalling packages"
      [] OTHER                       -> "Error updating packages"

\* `if let Err(e) = .. { eprintln!(..) }`, and the loop goes round.
HandleResult ==
    /\ pc = "returned"
    /\ reported' = IF ret = "Err" THEN Some(ErrorMessage(command)) ELSE None
    /\ pc' = "prompt"
    /\ FlowReset
    /\ UNCHANGED <<envVars, command, has_args>>

\* ------------------------------------------------------------------ specifications

FlowInit ==
    /\ ret = "none"
    /\ aur_response = None
    /\ official_packages = <<>>
    /\ combined_packages = <<>>
    /\ total_count = 0
    /\ current_index = 0
    /\ displayed = <<>>
    /\ selection = None
    /\ selected_package = None
    /\ input = NoInput
    /\ srcinfo = None
    /\ deps = <<>>
    /\ installed = {}
    /\ missing_deps = <<>>
    /\ dep_queue = <<>>
    /\ dep_input = NoInput
    /\ effects = <<>>
    /\ packages = <<>>
    /\ packages_chunks = <<>>
    /\ next_chunk = 1
    /\ in_flight = {}
    /\ results = <<>>
    /\ updates_available = <<>>
    /\ to_update = <<>>
    /\ printed = <<>>
    /\ command = ""
    /\ has_args = FALSE
    /\ reported = None

\* An environment in which nothing answers: the searches and `pacman -Qm` fail.
NoAurEnv == [ok |-> FALSE, results |-> None]
NoPacmanEnv == [launched |-> FALSE, lines |-> <<>>]
NoPackagesEnv == [ok |-> FALSE, list |-> <<>>]
NoInfo == [has_results |-> FALSE, db |-> <<>>]

\* The search and install flows up to the resolved selection, over every search result.
InitCatalog ==
    /\ overflow_checks \in BOOLEAN
    /\ aur_env \in AurSearchResults(MaxRemote)
    /\ pacman_env \in PacmanSearchResults(MaxLines)
    /\ packages_env = NoPackagesEnv
    /\ aur_info = NoInfo
    /\ pc \in {"search_packages", "install_package"}
    /\ FlowInit

NextCatalog ==
    \/ SearchPackages
    \/ InstallSearch
    \/ InstallSelect

SpecCatalog == InitCatalog /\ [][NextCatalog]_vars

\* get_missing_dependencies over every manifest.
InitDeps ==
    /\ overflow_checks = FALSE
    /\ aur_env = NoAurEnv
    /\ pacman_env = NoPacmanEnv
    /\ packages_env = NoPackagesEnv
    /\ aur_info = NoInfo
    /\ pc = "get_missing_dependencies"
    /\ FlowInit

NextDeps == GetMissingDependencies

SpecDeps == InitDeps /\ [][NextDeps]_vars

\* The environments of an update check: a failing `pacman -Qm`, short installed lists
\* with free versions and AUR records, long lists for the chunking.
UpdateEnvs ==
    {[packages |-> NoPackagesEnv, info |-> NoInfo]}
    \cup {[packages |-> [ok |-> TRUE, list |-> l], info |-> [has_results |-> h, db |-> d]] :
            l \in SmallInstalled(MaxSmallInstalled), h \in BOOLEAN,
            d \in SmallInfo(MaxSmallInstalled)}
    \cup UNION {{[packages |-> [ok |-> TRUE, list |-> BigInstalled(n)],
                  info |-> [has_results |-> TRUE, db |-> d]] : d \in BigInfo(n)} :
                n \in BigSizes}

InitUpdate ==
    /\ overflow_checks = FALSE
    /\ aur_env = NoAurEnv
    /\ pacman_env = NoPacmanEnv
    /\ \E e \in UpdateEnvs :
        /\ packages_env = e.packages
        /\ aur_info = e.info
    /\ pc = "update_packages"
    /\ FlowInit

NextUpdate ==
    \/ UpdateStart
    \/ StartChunk
    \/ CompleteSomeChunk
    \/ Collect

SpecUpdate == InitUpdate /\ [][NextUpdate]_vars

\* The dispatch of the chunks over the long installed lists, with the fairness of the
\* executor: a future that can be taken off the stream is taken, and a request in
\* flight comes to an end (an answer or an error).
InitDispatch ==
    /\ overflow_checks = FALSE
    /\ aur_env = NoAurEnv
    /\ pacman_env = NoPacmanEnv
    /\ \E n \in BigSizes, d \in BigInfo(MaxInstalled) :
        /\ packages_env = [ok |-> TRUE, list |-> BigInstalled(n)]
        /\ aur_info = [has_results |-> TRUE, db |-> d]
    /\ pc = "update_packages"
    /\ FlowInit

FairSpecDispatch ==
    /\ InitDispatch
    /\ [][NextUpdate]_vars
    /\ WF_vars(UpdateStart)
    /\ WF_vars(StartChunk)
    /\ WF_vars(CompleteSomeChunk)

\* The environments of the command loop: either the searches answer and `pacman -Qm`
\* fails, or the searches fail and the update check has an installed list.
LoopUpdateEnvs ==
    {[packages |-> NoPackagesEnv, info |-> NoInfo]}
    \cup {[packages |-> [ok |-> TRUE, list |-> l], info |-> [has_results |-> h, db |-> d]] :
            l \in SmallInstalled(LoopMaxInstalled), h \in BOOLEAN,
            d \in SmallInfo(LoopMaxInstalled)}

Init ==
    /\ overflow_checks \in BOOLEAN
    /\ \/ /\ aur_env \in AurSearchResults(LoopMaxRemote)
          /\ pacman_env \in PacmanSearchResults(LoopMaxLines)
          /\ packages_env = NoPackagesEnv
          /\ aur_info = NoInfo
       \/ /\ aur_env = NoAurEnv
          /\ pacman_env = NoPacmanEnv
          /\ \E e \in LoopUpdateEnvs :
              /\ packages_env = e.packages
              /\ aur_info = e.info
    /\ pc = "prompt"
    /\ FlowInit

Next ==
    \/ ReadUserInput
    \/ DoExit
    \/ DoMessage
    \/ DoSearch
    \/ DoInstall
    \/ DoUpdate
    \/ DoUninstall
    \/ HandleResult
    \/ SearchPackages
    \/ InstallSearch
    \/ InstallSelect
    \/ InstallGetMissing
    \/ InstallConfirm
    \/ InstallDependency
    \/ InstallSelected
    \/ UpdateStart
    \/ StartChunk
    \/ CompleteSomeChunk
    \/ Collect
    \/ UpdatePrompt
    \/ UpdateOne
    \/ UpdateOfficial

Spec == Init /\ [][Next]_vars

\* ------------------------------------------------------------------ the catalog claims

\* The display loops of a flow have run to their end.
DisplayDone ==
    /\ pc \in {"returned", "install_prompt", "install_dependencies"}
    /\ aur_response # None

\* The remote records as they arrived, and the lines that are local records.
RemoteRecords == unwrap_or_default(aur_response[1].results)

LocalRecordLines ==
    {i \in 1..Len(official_packages) :
        ~official_packages[i].indented /\ official_packages[i].tagged}

\* N = |remote records| + |local records|
CatalogSize == Len(RemoteRecords) + Cardinality(LocalRecordLines)

DisplayedIndices == {displayed[k].index : k \in 1..Len(displayed)}

\* C1: the indices the search and install flows assign to the catalog entries are
\* exactly 1..N, each used once, N being the number of remote records plus the
\* number of non-indented lines with a bracketed tag.
C1_IndicesAreOneToN ==
    DisplayDone =>
        /\ Len(displayed) = CatalogSize
        /\ DisplayedIndices = 1..CatalogSize

\* C2: the name install_package resolves for the entered number i is the name of the
\* record that was displayed with index i.
C2_SelectionResolvesDisplayed ==
    pc = "install_dependencies" =>
        \E k \in 1..Len(displayed) :
            /\ displayed[k].index = selection[1]
            /\ displayed[k].name = selected_package[1]

\* The popularity of the remote record of that name, an absent count being 0.
PopularityOf(name) ==
    LET i == CHOOSE j \in 1..Len(RemoteRecords) : RemoteRecords[j].name = name
    IN unwrap_or_0(RemoteRecords[i].num_votes)

Popularity == {unwrap_or_0(RemoteRecords[j].num_votes) : j \in 1..Len(RemoteRecords)}

HighestPopularity == CHOOSE m \in Popularity : \A v \in Popularity : v <= m

LowestPopularity == CHOOSE m \in Popularity : \A v \in Popularity : m <= v

\* The displayed entries as the set of their (index, name) pairs.
IndexMap == {<<displayed[k].index, displayed[k].name>> : k \in 1..Len(displayed)}

\* The records of the example: x with popularity 5, y with popularity 1, one local z.
ExampleCatalog ==
    /\ DisplayDone
    /\ RemoteRecords = << [name |-> "x", num_votes |-> Some(5)],
                          [name |-> "y", num_votes |-> Some(1)] >>
    /\ official_packages = << MkLine("tagged", 1) >>

\* C3 as the specification states it: with a remote record in the catalog, a remote
\* record of the highest popularity has the highest index N; the example gives
\* 3 -> x, 2 -> y, 1 -> z.
C3_MostPopularHasHighestIndex ==
    /\ (DisplayDone /\ Len(RemoteRecords) >= 1) =>
          \E k \in 1..Len(displayed) :
              /\ displayed[k].index = CatalogSize
              /\ displayed[k].source = "aur"
              /\ PopularityOf(displayed[k].name) = HighestPopularity
    /\ ExampleCatalog => IndexMap = {<<3, "x">>, <<2, "y">>, <<1, "z">>}

\* C3, amended: with a remote record in the catalog, a remote record of the lowest
\* popularity has the highest index N and a remote record of the highest popularity
\* has the lowest remote index, N - R + 1; the example gives 3 -> y, 2 -> x, 1 -> z.
C3_LeastPopularHasHighestIndex ==
    /\ (DisplayDone /\ Len(RemoteRecords) >= 1) =>
          /\ \E k \in 1..Len(displayed) :
                /\ displayed[k].index = CatalogSize
                /\ displayed[k].source = "aur"
                /\ PopularityOf(displayed[k].name) = LowestPopularity
          /\ \E k \in 1..Len(displayed) :
                /\ displayed[k].index = CatalogSize - Len(RemoteRecords) + 1
                /\ displayed[k].source = "aur"
                /\ PopularityOf(displayed[k].name) = HighestPopularity
    /\ ExampleCatalog => IndexMap = {<<3, "y">>, <<2, "x">>, <<1, "z">>}

\* The example of C3 has been displayed by the install flow.
C3_Witness == ExampleCatalog /\ pc = "install_prompt" /\ Len(displayed) = 3

\* ------------------------------------------------------------------ the update claims

\* The stream of chunk queries has been collected (or there was nothing to query).
Collected == pc \in {"update_prompt", "update_official"}

CeilDiv(n, d) == (n + d - 1) \div d

QueriesIssued == next_chunk - 1

\* C4: n installed packages give ceil(n/50) queries; the chunks are consecutive slices
\* of the installed list in order, of at most 50 names, all but the last of exactly 50,
\* and every installed name is in exactly one chunk.
C4_ChunksOfFifty ==
    LET n == Len(packages)
    IN /\ pc = "update_dispatch" =>
            /\ Len(packages_chunks) = CeilDiv(n, 50)
            /\ \A c \in 1..Len(packages_chunks) :
                  /\ Len(packages_chunks[c]) <= 50
                  /\ c < Len(packages_chunks) => Len(packages_chunks[c]) = 50
            /\ \A i \in 1..n :
                  /\ ((i - 1) \div 50) + 1 \in 1..Len(packages_chunks)
                  /\ ((i - 1) % 50) + 1 \in 1..Len(packages_chunks[((i - 1) \div 50) + 1])
                  /\ packages_chunks[((i - 1) \div 50) + 1][((i - 1) % 50) + 1] = packages[i].name
            /\ n = (Len(packages_chunks) - 1) * 50 + Len(packages_chunks[Len(packages_chunks)])
            /\ QueriesIssued <= CeilDiv(n, 50)
       /\ Collected => QueriesIssued = CeilDiv(n, 50)

\* 120 installed packages, collected: three chunks of 50, 50 and 20 names.
C4_Witness ==
    /\ Collected
    /\ Len(packages) = 120
    /\ QueriesIssued = 3
    /\ <<Len(packages_chunks[1]), Len(packages_chunks[2]), Len(packages_chunks[3])>>
         = <<50, 50, 20>>

\* Every chunk has its result in the collected vector.
AllCompleted ==
    /\ pc = "update_dispatch"
    /\ {results[k].chunk : k \in 1..Len(results)} = 1..Len(packages_chunks)

\* C5: at most 4 chunk queries are started and not completed, however many chunks
\* exist; a chunk past the fourth starts only once an earlier one has completed; and
\* every chunk is in the end started and completed.
C5_AtMostFourInFlight ==
    /\ [](QueriesIssued - Len(results) <= 4 /\ Cardinality(in_flight) <= 4)
    /\ [][(next_chunk' = next_chunk + 1 /\ next_chunk > 4)
            => Len(results) >= next_chunk - 4]_vars
    /\ (pc = "update_dispatch") ~> AllCompleted

\* Five chunks, four requests in flight, the fifth chunk waiting for a slot.
C5_Witness ==
    /\ pc = "update_dispatch"
    /\ Len(packages_chunks) = 5
    /\ Cardinality(in_flight) = 4
    /\ next_chunk = 5
    /\ results = <<>>

\* The chunks whose query failed, and those whose query succeeded.
FailedChunks == {results[k].chunk : k \in {j \in 1..Len(results) : ~results[j].ok}}

SucceededChunks == {results[k].chunk : k \in {j \in 1..Len(results) : results[j].ok}}

\* The remote version is strictly greater than the installed one, both parsing.
StrictlyNewer(local, remote) ==
    /\ VersionFrom(local) # None
    /\ VersionFrom(remote) # None
    /\ VersionLess(VersionFrom(local)[1], VersionFrom(remote)[1])

Triples == {updates_available[k] : k \in 1..Len(updates_available)}

\* The (name, version) pairs of the installed list.
InstalledPairs == {<<packages[i].name, packages[i].version>> : i \in 1..Len(packages)}

\* The candidates a record gives against the installed pairs.
CandidatesFor(r, pairs) ==
    {[name |-> r.name, current |-> v, new |-> r.version] :
        v \in {w \in Versions : <<r.name, w>> \in pairs /\ StrictlyNewer(w, r.version)}}

\* The records the AUR holds for the names of chunk c.
HeldFor(c) ==
    IF aur_info.has_results
    THEN {aur_info.db[packages_chunks[c][m]][1] :
            m \in {m \in 1..Len(packages_chunks[c]) : aur_info.db[packages_chunks[c][m]] # None}}
    ELSE {}

\* C6: when some chunk queries fail, every other chunk is still queried and processed,
\* the update check does not end in an error for it, and the candidates hold every
\* candidate the chunks that succeeded give.
C6_FailedChunksAreIsolated ==
    (Collected /\ packages # <<>>) =>
        /\ FailedChunks \cup SucceededChunks = 1..Len(packages_chunks)
        /\ ret # "Err"
        /\ LET pairs == InstalledPairs
               emitted == Triples
           IN \A c \in SucceededChunks :
                 \A r \in HeldFor(c) : CandidatesFor(r, pairs) \subseteq emitted

\* Chunk 2 of 3 failed, and candidates of chunks 1 and 3 are in the list.
C6_Witness ==
    /\ Collected
    /\ Len(packages_chunks) = 3
    /\ FailedChunks = {2}
    /\ \E t \in Triples : t.name <= 50
    /\ \E t \in Triples : t.name > 100

\* What a check of n packages prints when every chunk succeeds and nothing is outdated.
CleanRunOutput(n) ==
    << Message("Checking {} AUR package(s)...", n),
       Message("No available update for AUR packages.", 0) >>

\* C7: with k > 0 failed chunk queries, what the update check gives its caller differs
\* from what a check gives in which every chunk succeeded and nothing is outdated.
C7_FailuresAreSurfaced ==
    (Collected /\ FailedChunks # {}) =>
        <<printed, ret>> # <<CleanRunOutput(Len(packages)), "none">>

\* The records of the responses that succeeded, with their place.
ReturnedRecords ==
    {<<k, j>> \in (1..Len(results)) \X (1..chunk_size) :
        /\ results[k].ok
        /\ results[k].results # None
        /\ j <= Len(results[k].results[1])}

RecordAt(kj) == results[kj[1]].results[1][kj[2]]

\* C8: a candidate (name, installedVersion, remoteVersion) is emitted if and only if a
\* returned record's name is an installed package's and its version is strictly
\* greater than the installed one; equal or older versions, versions that do not
\* parse and names that are not installed give none.
C8_CandidateIffStrictlyNewer ==
    (Collected /\ packages # <<>>) =>
        LET pairs == InstalledPairs
            emitted == Triples
            returned == {RecordAt(kj) : kj \in ReturnedRecords}
        IN /\ \A t \in emitted :
                 /\ Pkg(t.name, t.new) \in returned
                 /\ <<t.name, t.current>> \in pairs
                 /\ StrictlyNewer(t.current, t.new)
           /\ \A r \in returned : CandidatesFor(r, pairs) \subseteq emitted
           /\ Len(updates_available)
                = Cardinality({kj \in ReturnedRecords : CandidatesFor(RecordAt(kj), pairs) # {}})

\* Two records returned: one newer than the installed version and emitted, one of an
\* equal version under another spelling and not emitted.
C8_Witness ==
    /\ Collected
    /\ packages = <<Pkg(1, "1.2"), Pkg(2, "1.2")>>
    /\ ReturnedRecords = {<<1, 1>>, <<1, 2>>}
    /\ RecordAt(<<1, 2>>) = Pkg(2, "1.2.0")
    /\ updates_available = <<[name |-> 1, current |-> "1.2", new |-> "1.2.3"]>>

\* ------------------------------------------------------------------ the manifest claims

\* The line is `depends =` (the key, the separating space, the equals sign) after any
\* indentation.
IsDependsLine(l) ==
    \E k \in 0..Len(l) :
        /\ \A j \in 1..k : IsWhitespace(l[j])
        /\ Len(l) >= k + 3
        /\ <<l[k + 1], l[k + 2], l[k + 3]>> = <<"depends", " ", "=">>

\* v is s without the whitespace at its two ends.
IsTrimOf(v, s) ==
    \E a \in 0..Len(s) :
        /\ a + Len(v) <= Len(s)
        /\ SubSeq(s, a + 1, a + Len(v)) = v
        /\ \A j \in (1..a) \cup ((a + Len(v) + 1)..Len(s)) : IsWhitespace(s[j])
        /\ v # <<>> => ~IsWhitespace(v[1]) /\ ~IsWhitespace(v[Len(v)])

\* The text of l after its first '=' and up to its second '=' (or its end).
ValueText(l) ==
    LET first == CHOOSE i \in EqualsAt(l) : \A j \in EqualsAt(l) : i <= j
        stop  == IF \E j \in EqualsAt(l) : j > first
                 THEN CHOOSE j \in EqualsAt(l) : j > first /\ \A m \in EqualsAt(l) : m > first => j <= m
                 ELSE Len(l) + 1
    IN SubSeq(l, first + 1, stop - 1)

ExampleManifest ==
    << <<"pkgname", " ", "=", " ", "foo">>,
       <<"depends", " ", "=", " ", "bar">>,
       <<"\t", "depends", " ", "=", " ", "baz">> >>

\* C9: parse_dependencies gives one entry per manifest line whose trimmed content
\* starts with `depends =`, in the order of the lines, duplicates kept, indented or
\* not; every other line gives nothing; a manifest without such a line gives the
\* empty list and no error; pkgname = foo, depends = bar, indented depends = baz
\* give [bar, baz].
C9_OneEntryPerDependsLine ==
    (pc = "returned" /\ srcinfo # None) =>
        LET lines == srcinfo[1]
            matching == {i \in 1..Len(lines) : IsDependsLine(lines[i])}
            rank(i) == Cardinality({j \in matching : j <= i})
        IN /\ ret = "Ok"
           /\ Len(deps) = Cardinality(matching)
           /\ \A i \in matching : IsTrimOf(deps[rank(i)], ValueText(lines[i]))
           /\ matching = {} => deps = <<>>
           /\ lines = ExampleManifest => deps = << <<"bar">>, <<"baz">> >>

\* A manifest with a line that does not match between a repeated dependency, one of
\* them indented: both entries are kept, in order.
C9_Witness ==
    /\ pc = "returned"
    /\ srcinfo = Some(<< <<"\t", "depends", " ", "=", " ", "baz">>,
                         <<"pkgname", " ", "=", " ", "foo">>,
                         <<"depends", " ", "=", " ", "bar">> >>)
    /\ deps = << <<"baz">>, <<"bar">> >>

\* ------------------------------------------------------------------ the command loop claim

\* The loop of main is left: by `break`, or by a panic that unwinds out of main.
LoopEnded == pc \in {"terminated", "panicked"}

\* C10: the command loop ends only when the user enters `exit`; a search, install,
\* uninstall or update command that fails has its error reported and the loop goes on
\* to read the next command.
C10_LoopEndsOnlyOnExit ==
    /\ LoopEnded => (pc = "terminated" /\ command = "exit")
    /\ (pc = "prompt" /\ reported # None /\ reported # Some("Error reading input"))
          => reported = Some(ErrorMessage(command))

\* ------------------------------------------------------------------ the selection claims

\* C11: when the query gives no remote record and no local record (N = 0), the install
\* flow ends without presenting the selection prompt and without reading a selection.
C11_NoPromptWhenNothingFound ==
    (aur_response # None /\ combined_packages = <<>> /\ CatalogSize = 0) =>
        /\ pc # "install_prompt"
        /\ input = NoInput

\* The line read at the selection prompt of install_package is no number, or a
\* number outside 1..N (the words that cancel the installation left aside).
InvalidSelection ==
    /\ command \in {"install", "i"}
    /\ \/ /\ input.kind = "word"
          /\ input.word \notin {"back", "Back", "quit", "QUIT"}
       \/ /\ input.kind = "number"
          /\ input.num \notin 1..total_count

\* C12: a selection that is non-numeric or outside 1..N (0 and N+1 among them) gives a
\* selection error, and no manifest fetch, clone, build or package-manager install is
\* made for that command.
C12_InvalidSelectionIsAnError ==
    InvalidSelection =>
        /\ pc = "returned"
        /\ ret = "Err"
        /\ selection = None
        /\ effects = <<>>

\* N + 1 was entered for a catalog of at least one entry, and the flow has returned.
C12_Witness ==
    /\ pc = "returned"
    /\ total_count >= 1
    /\ input = NumberInput(total_count + 1)
    /\ ret = "Err"

\* ------------------------------------------------------------------ the propagation claim

SearchCommand == command \in {"search", "s", "install", "i"} /\ has_args

\* The handler of the command has gone past its remote search.
PastSearch == pc \notin {"prompt", "dispatch", "search_packages", "install_package"}

\* The manifest fetch for the selected package was rejected.
ManifestRejected == selection # None /\ srcinfo = None /\ pc # "install_dependencies"

\* C13: when the remote search fails, search_packages and install_package return the
\* error without displaying a catalog entry and without prompting; when the manifest
\* fetch for the selected package is rejected, install_package returns the error and
\* makes no clone, build or package-manager install.
C13_ErrorsPropagate ==
    /\ (SearchCommand /\ PastSearch /\ ~aur_env.ok) =>
          /\ pc = "returned"
          /\ ret = "Err"
          /\ displayed = <<>>
          /\ input = NoInput
          /\ effects = <<>>
    /\ ManifestRejected =>
          /\ pc = "returned"
          /\ ret = "Err"
          /\ effects = <<Effect("fetch_srcinfo", selected_package[1], <<>>)>>

\* A package was selected in the install flow and its manifest fetch was rejected.
C13_Witness ==
    /\ command \in {"install", "i"}
    /\ ManifestRejected
    /\ ret = "Err"
    /\ displayed # <<>>

\* ------------------------------------------------------------------ the classification claim

\* C14: get_missing_dependencies returns exactly the extracted dependencies the
\* installed-predicate denies, in the order of the dependency list, duplicates kept;
\* every dependency is installed or missing, never both and never neither.
C14_MissingAreTheNotInstalled ==
    (pc = "returned" /\ srcinfo # None) =>
        LET denied == {i \in 1..Len(deps) : deps[i] \notin installed}
            rank(i) == Cardinality({j \in denied : j <= i})
            missing == {missing_deps[k] : k \in 1..Len(missing_deps)}
        IN /\ ret = "Ok"
           /\ Len(missing_deps) = Cardinality(denied)
           /\ \A i \in denied : missing_deps[rank(i)] = deps[i]
           /\ \A i \in 1..Len(deps) : (deps[i] \in installed) # (deps[i] \in missing)

\* bar is listed twice around baz, baz alone is installed: bar is returned twice.
C14_Witness ==
    /\ pc = "returned"
    /\ deps = << <<"bar">>, <<"baz">>, <<"bar">> >>
    /\ installed = {<<"baz">>}
    /\ missing_deps = << <<"bar">>, <<"bar">> >>

\* ------------------------------------------------------------------ the index order claim

\* The place at which the remote record of that name arrived.
ArrivalOf(name) == CHOOSE j \in 1..Len(RemoteRecords) : RemoteRecords[j].name = name

\* The positions of the local record lines, as a sequence in parsed order.
RECURSIVE LocalRecordSeq(_)
LocalRecordSeq(i) ==
    IF i > Len(official_packages) THEN <<>>
    ELSE (IF i \in LocalRecordLines THEN <<i>> ELSE <<>>) \o LocalRecordSeq(i + 1)

\* The first R displayed entries are the remote records, ascending by popularity with
\* ties in arrival order, numbered N, N - 1, ...
RemoteIndicesDescend ==
    LET R == Len(RemoteRecords)
    IN /\ Len(displayed) >= R
       /\ {displayed[k].name : k \in 1..R} = {RemoteRecords[j].name : j \in 1..R}
       /\ \A k \in 1..R :
             /\ displayed[k].source = "aur"
             /\ displayed[k].index = CatalogSize - k + 1
       /\ \A k \in 1..(R - 1) :
             /\ PopularityOf(displayed[k].name) <= PopularityOf(displayed[k + 1].name)
             /\ PopularityOf(displayed[k].name) = PopularityOf(displayed[k + 1].name)
                   => ArrivalOf(displayed[k].name) < ArrivalOf(displayed[k + 1].name)

\* The entries after them are the local records in parsed order, numbered on
\* downward, the last of them 1.
LocalIndicesContinue ==
    LET R == Len(RemoteRecords)
        locals == LocalRecordSeq(1)
    IN /\ Len(displayed) = R + Len(locals)
       /\ \A k \in 1..Len(locals) :
             /\ displayed[R + k].source = "official"
             /\ displayed[R + k].name = official_packages[locals[k]].first
             /\ displayed[R + k].index = CatalogSize - R - k + 1

\* C15: the install flow assigns the indices in descending order over the remote
\* records (ascending by popularity, ties in arrival order) followed by the local
\* records in parsed order: the first remote record gets N, the last local record 1,
\* and every remote index is greater than every local index.
C15_IndicesDescendOverBoth ==
    pc = "install_prompt" =>
        /\ RemoteIndicesDescend
        /\ LocalIndicesContinue
        /\ \A a, b \in 1..Len(displayed) :
              (displayed[a].source = "aur" /\ displayed[b].source = "official")
                 => displayed[a].index > displayed[b].index

\* ------------------------------------------------------------------ the dependency value claim

\* The line is the key `depends` directly followed by '=' after any indentation.
IsDependsLineNoSpace(l) ==
    \E k \in 0..Len(l) :
        /\ \A j \in 1..k : IsWhitespace(l[j])
        /\ Len(l) >= k + 2
        /\ <<l[k + 1], l[k + 2]>> = <<"depends", "=">>

\* The whole text of l after its first '='.
TextAfterFirstEquals(l) ==
    LET first == CHOOSE i \in EqualsAt(l) : \A j \in EqualsAt(l) : i <= j
    IN SubSeq(l, first + 1, Len(l))

\* C16: for every matching manifest line the dependency name is the whole text after
\* the first '=' of the line, trimmed, a version constraint left in place
\* (`depends = foo>=1.2` gives `foo>=1.2`); the key followed directly by '=' matches
\* as well as the key followed by ` =`.
C16_WholeValueAfterFirstEquals ==
    (pc = "returned" /\ srcinfo # None) =>
        LET lines == srcinfo[1]
            matching == {i \in 1..Len(lines) :
                            IsDependsLine(lines[i]) \/ IsDependsLineNoSpace(lines[i])}
            rank(i) == Cardinality({j \in matching : j <= i})
        IN /\ Len(deps) = Cardinality(matching)
           /\ \A i \in matching : IsTrimOf(deps[rank(i)], TextAfterFirstEquals(lines[i]))


\* ------------------------------------------------------------------ the candidate order claim

\* The records of the responses that succeeded, one response after the other in
\* the order of completion, each in the order of its records.
RECURSIVE ReturnedInOrder(_)
ReturnedInOrder(k) ==
    IF k > Len(results) THEN <<>>
    ELSE (IF results[k].ok /\ results[k].results # None THEN results[k].results[1] ELSE <<>>)
         \o ReturnedInOrder(k + 1)

\* C17: in the list of update candidates, candidates of a chunk that completed earlier
\* precede those of a chunk that completed later, the candidates of one chunk are
\* contiguous, and within a chunk they are in the order of the response's records:
\* the list is the returned records that give a candidate, in their order.
C17_CandidatesInCompletionOrder ==
    (Collected /\ packages # <<>>) =>
        LET pairs == InstalledPairs
            GivesCandidate(r) == CandidatesFor(r, pairs) # {}
            owners == SelectSeq(ReturnedInOrder(1), GivesCandidate)
        IN /\ Len(updates_available) = Len(owners)
           /\ \A p \in 1..Len(owners) :
                 /\ updates_available[p].name = owners[p].name
                 /\ updates_available[p].new = owners[p].version

\* Chunk 3 of 3 completed first and chunk 1 last, and both gave candidates.
C17_Witness ==
    /\ Collected
    /\ Len(results) = 3
    /\ <<results[1].chunk, results[3].chunk>> = <<3, 1>>
    /\ updates_available # <<>>
    /\ updates_available[1].name > 2 * chunk_size
    /\ updates_available[Len(updates_available)].name <= chunk_size

\* ------------------------------------------------------------------ the install route claim

\* The source of the record the selection resolved to.
SelectedSource ==
    IF \E j \in 1..Len(combined_packages) : combined_packages[j].name = selected_package[1]
    THEN "aur" ELSE "official"

\* C18: in install_package a selected remote record is installed by cloning and
\* building it and a selected local record through the package manager; a remote
\* record is never handed to the package manager, a local record never cloned and
\* built.
C18_RouteMatchesSource ==
    (command \in {"install", "i"} /\ selected_package # None) =>
        \A k \in 1..Len(effects) :
            /\ effects[k].op = "pacman -S" => SelectedSource = "official"
            /\ (effects[k].op \in {"clone_package_repo", "makepkg"} /\ effects[k].dep = <<>>)
                  => SelectedSource = "aur"

\* ------------------------------------------------------------------ the two flows claim

\* The (index, name) pairs a flow displays for the records and lines of this state,
\* its sort being `sorted`.
IndexMapWith(sorted) ==
    LET out == Display(sorted, official_packages,
                       CountOfficial(official_packages) + Len(sorted), overflow_checks).out
    IN {<<out[k].index, out[k].name>> : k \in 1..Len(out)}

\* C19: for the same remote results and the same local lines search_packages and
\* install_package give the same index to the same package, also when some remote
\* records have no popularity value and others have popularity 0.
C19_FlowsNumberAlike ==
    DisplayDone =>
        /\ IndexMap = IndexMapWith(sort_by_votes(RemoteRecords))
        /\ IndexMap = IndexMapWith(sort_by_key_votes(RemoteRecords))

\* ------------------------------------------------------------------ the counter claim

\* The decrement of the display counter overflowed in a build that checks overflow.
DisplayPanicked == pc = "panicked" /\ pacman_env.launched

\* C20: for every sequence of local search lines (headers without a bracketed tag,
\* headers in a row and stray indented lines among them) the running index counter of
\* the display loops is never decremented below zero and no entry is displayed with
\* an index smaller than 1.
C20_CounterStaysInRange ==
    /\ current_index >= 0
    /\ ~DisplayPanicked
    /\ \A k \in 1..Len(displayed) : displayed[k].index >= 1

\* ------------------------------------------------------------------ the cancellation claim

\* `back` or `quit`, in any letter case, was read at a prompt.
Cancelled == input.kind = "word" /\ input.word \in {"back", "Back", "quit", "QUIT"}

\* C21: `back` or `quit` (any letter case) at the install prompt ends install_package
\* successfully with no manifest fetch, clone, build or package-manager install; at the
\* update prompt it ends update_packages successfully with no package cloned or built.
C21_CancelEndsSuccessfully ==
    Cancelled =>
        /\ pc = "returned"
        /\ ret = "Ok"
        /\ effects = <<>>
        /\ selection = None
        /\ to_update = <<>>

\* QUIT was entered at the update prompt with a candidate on offer.
C21_Witness ==
    /\ command \in {"update", "up"}
    /\ input = WordInput("QUIT")
    /\ updates_available # <<>>
    /\ pc = "returned"
    /\ ret = "Ok"

\* ------------------------------------------------------------------ the update loop claim

\* update_packages has returned after a line was read at its prompt that did not cancel.
UpdateReturnedUncancelled ==
    /\ command \in {"update", "up"}
    /\ pc = "returned"
    /\ input # NoInput
    /\ ~Cancelled

\* C22: during update_packages a failure to update one selected package (its clone
\* fails or its build exits non-zero) does not prevent the update attempt on the
\* remaining selected packages, and the official-repository upgrade is attempted
\* afterwards whenever the user did not cancel.
C22_UpdateFailuresAreContained ==
    UpdateReturnedUncancelled =>
        /\ to_update = <<>>
        /\ effects # <<>>
        /\ effects[Len(effects)] = UpdateEffect("pacman -Syu", 0)

\* ------------------------------------------------------------------ the dependency confirmation claim

\* The places of `effects` where a missing dependency was cloned or built.
DependencyInstalls == {k \in 1..Len(effects) : effects[k].dep # <<>>}

\* The places of `effects` where the selected package itself was cloned, built or
\* handed to pacman.
SelectedInstalls ==
    {k \in 1..Len(effects) :
        /\ effects[k].dep = <<>>
        /\ effects[k].op \in {"clone_package_repo", "makepkg", "pacman -S"}}

\* The places of `missing_deps` whose dependency was cloned before place `k` of `effects`.
AttemptedBefore(k) ==
    {i \in 1..Len(missing_deps) :
        \E j \in 1..(k - 1) : effects[j] = Effect("clone_package_repo", "", missing_deps[i])}

AnsweredYes == dep_input.kind = "word" /\ dep_input.word \in {"y", "Y"}

AnsweredOtherwise == dep_input.kind = "word" /\ dep_input.word \notin {"y", "Y"}

\* C23: in install_package the missing dependencies are installed only after the
\* user answered `y` to the confirmation; when the install of the selected package
\* starts after a `y`, every missing dependency has been attempted before it; and
\* with any other answer no dependency is installed and the selected package's
\* install is still what the flow goes on to and ends with.
C23_DependenciesOnlyOnYes ==
    command \in {"install", "i"} =>
        /\ DependencyInstalls # {} => AnsweredYes
        /\ \A k \in SelectedInstalls :
              /\ \A j \in DependencyInstalls : j < k
              /\ AnsweredYes => AttemptedBefore(k) = 1..Len(missing_deps)
        /\ AnsweredOtherwise =>
              /\ DependencyInstalls = {}
              /\ pc \in {"install_selected", "returned"}
              /\ pc = "returned" => SelectedInstalls # {}

\* `y` was answered with two dependencies missing, both were cloned and built, and
\* the selected package was installed after them.
C23_Witness ==
    /\ command \in {"install", "i"}
    /\ dep_input = WordInput("y")
    /\ Len(missing_deps) = 2
    /\ Cardinality(DependencyInstalls) = 4
    /\ SelectedInstalls # {}
    /\ pc = "returned"

\* An answer other than `y` was given with a dependency missing and the selected
\* package was installed.
C23_WitnessDeclined ==
    /\ command \in {"install", "i"}
    /\ dep_input = WordInput("")
    /\ missing_deps # <<>>
    /\ SelectedInstalls # {}
    /\ pc = "returned"
====
